---------------------------- MODULE Spec2Model ----------------------------
(***************************************************************************)
(* Model of custom_colormaps.py: create_colormap (the gradient builder),   *)
(* colormap_tuple (the RGB table loader) and NCAR_RGB_pull (the remote     *)
(* fetcher).                                                               *)
(*                                                                         *)
(* Numbers.  A real number is a reduced fraction <<n, d>> with d > 0.      *)
(* Floating point rounding (float32 storage of a list, float64 quotients)  *)
(* is not modelled: a float holds the exact fraction.  An integer numpy    *)
(* array holds whole numbers only, and a store into it truncates.          *)
(*                                                                         *)
(* Text.  A string is a sequence of pieces, the separator "/" a piece of   *)
(* its own.                                                                *)
(***************************************************************************)
EXTENDS Integers, Sequences, FiniteSets, TLC

VARIABLES
    colorsKind,   \* what the caller's colors object is: "list", "ndarray_f", "ndarray_i"
    colorsObj,    \* the rows the caller's colors object holds now
    positionObj,  \* the position object the caller passed to the last call, as it is now
    calls,        \* number of create_colormap calls made so far
    last,         \* record of the last create_colormap call
    file,         \* the lines of the RGB text file (each a row of three numbers)
    loaded,       \* record of the last colormap_tuple call
    fs,           \* the absolute paths of the files written so far
    stdout,       \* the lines printed so far
    requests,     \* the URLs requested so far
    events        \* one record per NCAR_RGB_pull call, with its I/O operations in order

vars == <<colorsKind, colorsObj, positionObj, calls, last, file, loaded,
          fs, stdout, requests, events>>

builderVars == <<colorsKind, colorsObj, positionObj, calls, last>>
loaderVars  == <<file, loaded>>
fetcherVars == <<fs, stdout, requests, events>>

(***************************************************************************)
(* Bounds of the model.                                                    *)
(***************************************************************************)
MaxLen   == 3    \* longest colors / position sequence
MaxCalls == 2    \* create_colormap calls per behaviour
MaxRows  == 3    \* most lines in the RGB text file
MaxPulls == 2    \* NCAR_RGB_pull calls per behaviour
MaxSkip  == 1    \* most header / footer lines a colormap_tuple call skips

(***************************************************************************)
(* Fractions.                                                              *)
(***************************************************************************)
Abs(x) == IF x < 0 THEN -x ELSE x

RECURSIVE GCD(_, _)
GCD(a, b) == IF b = 0 THEN a ELSE GCD(b, a % b)

Frac(n, d) == LET g == GCD(Abs(n), d) IN <<n \div g, d \div g>>

Whole(n) == <<n, 1>>

Zero == Whole(0)
One  == Whole(1)

Min(a, b) == IF a <= b THEN a ELSE b

(***************************************************************************)
(* create_colormap                                                         *)
(***************************************************************************)
\* the 8-bit divisor of line 67: x / 255.
BitScale == 255

\* the size of the lookup table handed to LinearSegmentedColormap (line 73)
LutSize == 256

\* numpy.isclose's default tolerances, as multiples of 10^-8:
\* atol = 1e-8, rtol = 1e-5.
AtolUnits == 1
RtolUnits == 1000

\* floor(t * d / 10^8), computed in two halves to stay within 32 bits
TolFloor(t, d) ==
    ((t * (d \div 10000)) + ((t * (d % 10000)) \div 10000)) \div 10000

\* numpy.isclose(a, b) for a fraction a and a whole number b:
\* |a - b| <= atol + rtol * |b|
IsClose(a, b) ==
    Abs(a[1] - b * a[2]) <= TolFloor(AtolUnits + RtolUnits * Abs(b), a[2])

\* x / 255. for one channel value
Div255(x) == Frac(x[1], x[2] * BitScale)

\* a value stored into an array of the given kind: an integer array truncates
StoreAs(kind, x) == IF kind = "ndarray_i" THEN Whole(x[1] \div x[2]) ELSE x

\* colors[::-1] (ReversedDropped: the variant that leaves the order alone)
ReversedDropped(s) == s
Reversed(s) == [i \in 1..Len(s) |-> s[Len(s) + 1 - i]]

\* np.linspace(0, 1, n) (LinspaceNoEndpoint: the variant that stops short
\* of 1, as with endpoint=False)
LinspaceNoEndpoint(n) == [i \in 1..n |-> Frac(i - 1, n)]
Linspace(n) == [i \in 1..n |-> IF n = 1 THEN Zero ELSE Frac(i - 1, n - 1)]

\* the position argument: None, a list/tuple, or a numpy array
NonePos == [kind |-> "None", vals |-> <<>>]

\* lines 57-65: the positions used, or the ValueError raised
ResolvePosition(position, n) ==
    IF position.kind # "None" /\ position.kind # "ndarray"
    THEN [error |-> "", pos |-> position.vals]
    ELSE IF position.kind = "None"
    THEN [error |-> "", pos |-> Linspace(n)]
    ELSE IF Len(position.vals) # n
    THEN [error |-> "position length must be the same as colors", pos |-> <<>>]
    ELSE IF /\ ~IsClose(position.vals[1], 0)
            /\ ~IsClose(position.vals[Len(position.vals)], 1)
    THEN [error |-> "position must start with 0 and end with 1", pos |-> <<>>]
    ELSE [error |-> "", pos |-> position.vals]

\* line 67: every row replaced by its channels over 255, stored back into
\* the array (of the working array's element type)
Normalise(kind, rows) ==
    [i \in 1..Len(rows) |->
        [c \in 1..3 |-> StoreAs(kind, Div255(rows[i][c]))]]

\* lines 68-72: one (pos, value, value) anchor per zipped (pos, color) pair
\* (ChannelRightZero: the variant that leaves the right-hand value at 0)
ChannelRightZero(pos, rows, c) ==
    [i \in 1..Min(Len(pos), Len(rows)) |-> <<pos[i], rows[i][c], Zero>>]
Channel(pos, rows, c) ==
    [i \in 1..Min(Len(pos), Len(rows)) |-> <<pos[i], rows[i][c], rows[i][c]>>]

Cdict(pos, rows) ==
    [red   |-> Channel(pos, rows, 1),
     green |-> Channel(pos, rows, 2),
     blue  |-> Channel(pos, rows, 3)]

EmptyCdict == [red |-> <<>>, green |-> <<>>, blue |-> <<>>]

\* the element type of the working array: a list is copied into float32
\* (line 54), a numpy array is used as it is
WorkKind(kind) == IF kind = "list" THEN "ndarray_f" ELSE kind

\* create_colormap(colors, position, bit, reverse): the outcome, the segment
\* data of the colormap returned, and what the caller's colors object holds
\* afterwards (a numpy array is worked on in place, also through the
\* reversed view; a list is copied first)
create_colormap(kind, rows, position, bit, reverse) ==
    LET work  == IF reverse THEN Reversed(rows) ELSE rows
        res   == ResolvePosition(position, Len(work))
        final == IF bit THEN Normalise(WorkKind(kind), work) ELSE work
        back  == IF reverse THEN Reversed(final) ELSE final
    IN  IF res.error # ""
        THEN [outcome |-> "ValueError", message |-> res.error,
              cdict |-> EmptyCdict, N |-> 0, after |-> rows]
        ELSE [outcome |-> "returned", message |-> "",
              cdict |-> Cdict(res.pos, final), N |-> LutSize,
              after |-> IF kind = "list" THEN rows ELSE back]


(***************************************************************************)
(* The caller of create_colormap: one colors object per behaviour, passed  *)
(* to every call, and a fresh position argument per call.                  *)
(***************************************************************************)
Kinds == {"list", "ndarray_f", "ndarray_i"}

Color(r, g, b) == <<r, g, b>>

\* 8-bit colors of the example of line 153; arithmetic colors of the
\* examples of lines 160 and 167
EightBit   == <<Color(Whole(255), Zero, Zero), Color(Zero, Whole(157), Zero),
                Color(Zero, Zero, Whole(255))>>
Arithmetic == <<Color(One, One, One), Color(Frac(1, 2), Zero, Zero),
                Color(Frac(2, 5), Frac(1, 5), Zero)>>

Cycle(kind) == IF kind = "ndarray_f" THEN Arithmetic ELSE EightBit

\* the n colors of a cycle from its o-th on
Window(cycle, o, n) == [i \in 1..n |-> cycle[((o + i - 2) % Len(cycle)) + 1]]

ColorSeqs(kind) ==
    {Window(Cycle(kind), o, n) : o \in 1..Len(Cycle(kind)), n \in 1..MaxLen}

SeqsUpTo(S, n) == UNION {[1..k -> S] : k \in 1..n}

\* position values: 0, a value within isclose's tolerance of 0, an interior
\* value (line 169), a value within isclose's tolerance of 1, and 1
NearZero == Frac(1, 1000000000)
Interior == Frac(3, 10)
NearOne  == Frac(999999, 1000000)
FirstValues == {Zero, NearZero, Interior}
LastValues  == {Interior, NearOne, One}

\* a position sequence: a first value, interior values, a last value
PosSeq(n, f, l) ==
    [i \in 1..n |-> IF i = 1 THEN f ELSE IF i = n THEN l ELSE Interior]

PosSeqs == {PosSeq(n, f, l) : n \in 1..MaxLen, f \in FirstValues, l \in LastValues}

Positions ==
    {NonePos} \cup {[kind |-> k, vals |-> p] : k \in {"list", "ndarray"}, p \in PosSeqs}

NoCall ==
    [colors |-> <<>>, position |-> NonePos, bit |-> FALSE, reverse |-> FALSE,
     outcome |-> "none", message |-> "", cdict |-> EmptyCdict, N |-> 0]

BuilderInit ==
    /\ colorsKind \in Kinds
    /\ colorsObj \in ColorSeqs(colorsKind)
    /\ positionObj = NonePos
    /\ calls = 0
    /\ last = NoCall

BuilderIdle ==
    /\ colorsKind = "list"
    /\ colorsObj = <<>>
    /\ positionObj = NonePos
    /\ calls = 0
    /\ last = NoCall

\* cmap = create_colormap(colors, position, bit, reverse)
CallCreateColormap ==
    /\ calls < MaxCalls
    /\ \E position \in Positions, bit \in BOOLEAN, reverse \in BOOLEAN :
         \E r \in {create_colormap(colorsKind, colorsObj, position, bit, reverse)} :
             /\ last' = [colors |-> colorsObj, position |-> position,
                         bit |-> bit, reverse |-> reverse,
                         outcome |-> r.outcome, message |-> r.message,
                         cdict |-> r.cdict, N |-> r.N]
             /\ colorsObj' = r.after
             /\ positionObj' = position
    /\ calls' = calls + 1
    /\ UNCHANGED <<colorsKind, loaderVars, fetcherVars>>

(***************************************************************************)
(* colormap_tuple                                                          *)
(***************************************************************************)
\* the lines np.genfromtxt keeps: all but the first skip_header and the
\* last skip_footer lines
DataRows(lines, headers, footers) ==
    IF headers + footers >= Len(lines) THEN <<>>
    ELSE SubSeq(lines, headers + 1, Len(lines) - footers)

\* np.genfromtxt (line 101): the shape of the array it returns.  Two or more
\* rows give a 2-D array (rows, 3); a single row is squeezed to the 1-D
\* array (3,); no row gives the empty 1-D array (0,).
GenfromtxtShape(rows) ==
    IF Len(rows) = 0 THEN <<0>>
    ELSE IF Len(rows) = 1 THEN <<3>>
    ELSE <<Len(rows), 3>>

\* lines 103 and 105: [tuple((txt_array[i,0], txt_array[i,1], txt_array[i,2]))
\* for i in range(0, txt_array.shape[0])]; indexing a 1-D array with two
\* indices raises IndexError
Triples(rows) ==
    LET shape == GenfromtxtShape(rows)
    IN  IF shape[1] = 0 THEN [error |-> "", triples |-> <<>>]
        ELSE IF Len(shape) < 2 THEN [error |-> "IndexError", triples |-> <<>>]
        ELSE [error |-> "",
              triples |-> [i \in 1..shape[1] |-> <<rows[i][1], rows[i][2], rows[i][3]>>]]

\* colormap_tuple(RGB_file, return_cmap=..., headers=..., footers=...)
colormap_tuple(lines, return_cmap, headers, footers) ==
    LET t == Triples(DataRows(lines, headers, footers))
    IN  IF t.error # ""
        THEN [outcome |-> t.error, triples |-> <<>>, cdict |-> EmptyCdict]
        ELSE IF return_cmap
        THEN LET r == create_colormap("list", t.triples, NonePos, TRUE, FALSE)
             IN  [outcome |-> r.outcome, triples |-> <<>>, cdict |-> r.cdict]
        ELSE [outcome |-> "returned", triples |-> t.triples, cdict |-> EmptyCdict]

\* rows of an RGB table: 8-bit values
TableRows == {EightBit[i] : i \in 1..Len(EightBit)}

NoLoad ==
    [mode |-> "none", headers |-> 0, footers |-> 0, outcome |-> "none",
     triples |-> <<>>, cdict |-> EmptyCdict]

LoaderIdle == file = <<>> /\ loaded = NoLoad

LoaderInit ==
    /\ file \in {<<>>} \cup SeqsUpTo(TableRows, MaxRows)
    /\ loaded = NoLoad

\* colormap_tuple(file, return_cmap=..., headers=h, footers=f)
CallColormapTuple ==
    /\ \E return_cmap \in BOOLEAN, h \in 0..MaxSkip, f \in 0..MaxSkip :
         LET r == colormap_tuple(file, return_cmap, h, f)
         IN  loaded' = [mode |-> IF return_cmap THEN "cmap" ELSE "tuple",
                        headers |-> h, footers |-> f, outcome |-> r.outcome,
                        triples |-> r.triples, cdict |-> r.cdict]
    /\ UNCHANGED <<file, builderVars, fetcherVars>>

(***************************************************************************)
(* NCAR_RGB_pull                                                           *)
(*                                                                         *)
(* A string is a sequence of pieces; the separator "/" is always a piece   *)
(* of its own, so that split('/') and path lookup can be computed.         *)
(***************************************************************************)
Sep == "/"

\* line 130
address ==
    <<"https:", Sep, Sep, "www.ncl.ucar.edu", Sep, "Document", Sep, "Graphics",
      Sep, "ColorTables", Sep, "Files", Sep>>

\* os.getcwd()
Cwd == <<Sep, "home", Sep, "user">>

\* index of the last separator of s, 0 when it has none
LastSep(s) ==
    LET I == {i \in 1..Len(s) : s[i] = Sep}
    IN  IF I = {} THEN 0 ELSE CHOOSE i \in I : \A j \in I : j <= i

\* s.split('/')[-1]
LastSegment(s) == SubSeq(s, LastSep(s) + 1, Len(s))

\* the absolute path the operating system opens for a path given to open()
Resolve(path) ==
    IF Len(path) > 0 /\ path[1] = Sep THEN path ELSE Cwd \o <<Sep>> \o path

\* the path NCAR_RGB_pull opens: lines 135 and 141
TargetPath(save_loc, local_filename) ==
    IF ~save_loc.given THEN local_filename ELSE save_loc.path \o local_filename

\* NCAR_RGB_pull(cmap_name, save_loc): the I/O operations of one call, in
\* order.  requests.get may fail; nothing is written or printed then.
NCAR_RGB_pull(cmap_name, save_loc, reachable) ==
    LET url            == address \o cmap_name
        local_filename == LastSegment(url)
        path           == Resolve(TargetPath(save_loc, local_filename))
        where          == IF save_loc.given THEN save_loc.path ELSE Cwd
    IN  IF ~reachable
        THEN [outcome |-> "ConnectionError",
              log |-> <<[op |-> "get", arg |-> url]>>]
        ELSE [outcome |-> "returned",
              log |-> <<[op |-> "get", arg |-> url],
                        [op |-> "write", arg |-> path],
                        [op |-> "print", arg |-> <<"Download complete for : ">> \o local_filename],
                        [op |-> "print", arg |-> <<"File saved in : \n">> \o where]>>]

Select(log, op) == SelectSeq(log, LAMBDA e : e.op = op)
Args(log) == [i \in 1..Len(log) |-> log[i].arg]
Range(s) == {s[i] : i \in 1..Len(s)}

CmapNames == {<<"amwg.rgb">>, <<"MPL_viridis.rgb">>, <<"temp_19lev.rgb">>}

NoSaveLoc == [given |-> FALSE, path |-> <<>>]
SaveLocs ==
    {NoSaveLoc} \cup
    {[given |-> TRUE, path |-> p] :
        p \in {<<Sep, "data">>, <<Sep, "data", Sep>>, <<"maps", Sep>>}}

FetcherIdle == fs = {} /\ stdout = <<>> /\ requests = <<>> /\ events = <<>>

FetcherInit == FetcherIdle

\* NCAR_RGB_pull(cmap_name, save_loc)
CallNCARRGBPull ==
    /\ Len(events) < MaxPulls
    /\ \E cmap_name \in CmapNames, save_loc \in SaveLocs, reachable \in BOOLEAN :
         LET r == NCAR_RGB_pull(cmap_name, save_loc, reachable)
         IN  /\ events' = Append(events,
                             [cmap_name |-> cmap_name, save_loc |-> save_loc,
                              outcome |-> r.outcome, log |-> r.log])
             /\ requests' = requests \o Args(Select(r.log, "get"))
             /\ fs' = fs \cup Range(Args(Select(r.log, "write")))
             /\ stdout' = stdout \o Args(Select(r.log, "print"))
    /\ UNCHANGED <<builderVars, loaderVars>>

(***************************************************************************)
(* Specifications: one per function.                                       *)
(***************************************************************************)
Init == BuilderInit /\ LoaderIdle /\ FetcherIdle

Next == CallCreateColormap

Spec == Init /\ [][Next]_vars

InitLoader == BuilderIdle /\ LoaderInit /\ FetcherIdle

NextLoader == CallColormapTuple

SpecLoader == InitLoader /\ [][NextLoader]_vars

InitFetcher == BuilderIdle /\ LoaderIdle /\ FetcherInit

NextFetcher == CallNCARRGBPull

SpecFetcher == InitFetcher /\ [][NextFetcher]_vars

(***************************************************************************)
(* Properties of create_colormap.                                          *)
(***************************************************************************)
Called   == last.outcome # "none"
Returned == last.outcome = "returned"
NColors  == Len(last.colors)

\* the color that anchor i is built from: color i of the sequence passed,
\* counted from the end when reverse is set
SourceIndex(i) == IF last.reverse THEN NColors + 1 - i ELSE i
ChannelOf(c)   == CASE c = 1 -> last.cdict.red
                    [] c = 2 -> last.cdict.green
                    [] c = 3 -> last.cdict.blue

\* v = x / 255 as real numbers
IsOver255(v, x) == v[1] * x[2] * 255 = x[1] * v[2]

\* C1: a call with an explicit position argument whose length differs from
\* the number of colors raises ValueError, whatever the form of the
\* argument (list or numpy array).
C1_LengthMismatchRaises ==
    (/\ Called
     /\ last.position.kind # "None"
     /\ Len(last.position.vals) # NColors)
    => last.outcome = "ValueError"

\* C2: a call with an explicit position argument of the same length as
\* colors raises ValueError exactly when the first position is not close to
\* 0 and the last is not close to 1, whatever the form of the argument.
C2_EndpointErrorIffBothWrong ==
    (/\ Called
     /\ last.position.kind # "None"
     /\ Len(last.position.vals) = NColors)
    => (last.outcome = "ValueError"
        <=> (/\ ~IsClose(last.position.vals[1], 0)
             /\ ~IsClose(last.position.vals[NColors], 1)))

\* C3: after any call, returned or raised, the caller's colors object and
\* position object hold the values they held before the call.
C3_ArgumentsUnchanged ==
    Called => (colorsObj = last.colors /\ positionObj = last.position)

\* C4: two calls passed the same colors object, the same position and the
\* same flags produce the same outcome and the same anchor lists.
C4_SameInputsSameGradient ==
    [][(/\ Called
        /\ calls' = calls + 1
        /\ last'.position = last.position
        /\ last'.bit = last.bit
        /\ last'.reverse = last.reverse)
       => (last'.outcome = last.outcome /\ last'.cdict = last.cdict)]_vars

\* C5: with bit set, every channel value of every anchor is the input
\* channel value divided by 255, whatever the representation of colors.
C5_BitDividesBy255 ==
    (Returned /\ last.bit)
    => \A c \in 1..3 : \A i \in 1..Len(ChannelOf(c)) :
          /\ IsOver255(ChannelOf(c)[i][2], last.colors[SourceIndex(i)][c])
          /\ IsOver255(ChannelOf(c)[i][3], last.colors[SourceIndex(i)][c])

C7_ReverseMirrorsColors ==
    (Returned /\ last.reverse /\ ~last.bit /\ last.position.kind = "None")
    => LET fwd == create_colormap(colorsKind, last.colors, NonePos, FALSE, FALSE).cdict
           F(c) == CASE c = 1 -> fwd.red [] c = 2 -> fwd.green [] c = 3 -> fwd.blue
       IN  \A c \in 1..3 :
              /\ Len(ChannelOf(c)) = Len(F(c))
              /\ \A i \in 1..Len(F(c)) :
                    /\ ChannelOf(c)[i][1] = F(c)[i][1]
                    /\ ChannelOf(c)[i][2] = F(c)[Len(F(c)) + 1 - i][2]
                    /\ ChannelOf(c)[i][3] = F(c)[Len(F(c)) + 1 - i][3]

C7_Witness ==
    /\ Returned /\ last.reverse /\ ~last.bit /\ last.position.kind = "None"
    /\ NColors = 3
    /\ last.colors[1] # last.colors[3]
    /\ last.cdict.red[1][2] = last.colors[3][1]

C9_LoaderRoundTrip ==
    loaded.mode # "none"
    => LET data == DataRows(file, loaded.headers, loaded.footers)
       IN  /\ loaded.outcome = "returned"
           /\ loaded.mode = "tuple" => loaded.triples = data
           /\ loaded.mode = "cmap" =>
                 loaded.cdict = create_colormap("list", data, NonePos, TRUE, FALSE).cdict

(***************************************************************************)
(* Properties of NCAR_RGB_pull.                                            *)
(***************************************************************************)
LastPull == events[Len(events)]

\* the directory part and the name part of an absolute path
Dirname(path)  == SubSeq(path, 1, LastSep(path) - 1)
Basename(path) == SubSeq(path, LastSep(path) + 1, Len(path))

\* a directory path without its trailing separator
StripSep(dir) ==
    IF Len(dir) > 1 /\ dir[Len(dir)] = Sep THEN SubSeq(dir, 1, Len(dir) - 1) ELSE dir

\* C10: a completed call downloads address + cmap_name once and writes one
\* file, named cmap_name, in the directory save_loc when it is given (with
\* or without a trailing separator) and in the working directory when it is
\* not; the messages are printed after the file is written.
C10_OneFileInTargetDirectory ==
    (events # <<>> /\ LastPull.outcome = "returned")
    => LET log    == LastPull.log
           gets   == Select(log, "get")
           writes == Select(log, "write")
           dir    == IF LastPull.save_loc.given
                     THEN Resolve(StripSep(LastPull.save_loc.path))
                     ELSE Cwd
       IN  /\ Len(gets) = 1
           /\ gets[1].arg = address \o LastPull.cmap_name
           /\ Len(writes) = 1
           /\ Basename(writes[1].arg) = LastPull.cmap_name
           /\ Dirname(writes[1].arg) = dir
           /\ writes[1].arg \in fs
           /\ \A i, j \in 1..Len(log) :
                 (log[i].op = "print" /\ log[j].op = "write") => j < i

=============================================================================
